---- MODULE Spec2Model ----
(***************************************************************************)
(* Model of lib/shared/files.js: exists, getFileMetadataSync,              *)
(* getFileMetadataAsync, getAllFilesMetadataAsync, getDirectoryContents    *)
(* and subpaths, over a POSIX filesystem.                                  *)
(*                                                                         *)
(* A JavaScript string is a sequence of one-character strings, so that     *)
(* split, startsWith, replace, path.join and path.parse are computed       *)
(* character by character as node's path.posix does.                       *)
(***************************************************************************)
EXTENDS Naturals, Integers, Sequences, FiniteSets, TLC

VARIABLES
    fs,       \* the filesystem
    call,     \* the arguments of the call under way
    pc,       \* where the call stands
    out,      \* what the call returned, threw, resolved or rejected with
    batch,    \* a Bluebird.map under way: its items, results and promise
    sub,      \* subpaths: its component list and the records mapped so far
    lookups,  \* the paths handed to lstat, in the order of the calls
    removed   \* what an external actor deleted, and where the call stood

vars == <<fs, call, pc, out, batch, sub, lookups, removed>>

(***************************************************************************)
(* Strings                                                                 *)
(***************************************************************************)
SEP == "/"

DOT == "."

\* s.slice(from, to) of JavaScript: 0-based, `to` exclusive.
Slice(s, from, to) == SubSeq(s, from + 1, to)

\* s.startsWith(c) for a one-character c.
StartsWith(s, c) == Len(s) >= 1 /\ s[1] = c

\* s.replace(c, '') for a one-character string pattern c: only the FIRST
\* occurrence is removed.
ReplaceFirst(s, c) ==
    IF \E i \in 1..Len(s) : s[i] = c
    THEN LET i == CHOOSE j \in 1..Len(s) :
                      s[j] = c /\ \A h \in 1..(j - 1) : s[h] # c
         IN  SubSeq(s, 1, i - 1) \o SubSeq(s, i + 1, Len(s))
    ELSE s

\* s.split(sep): the segments between separators, empty ones kept;
\* ''.split('/') is [''].
RECURSIVE SplitFrom(_, _, _)
SplitFrom(s, i, cur) ==
    IF i > Len(s) THEN <<cur>>
    ELSE IF s[i] = SEP THEN <<cur>> \o SplitFrom(s, i + 1, <<>>)
    ELSE SplitFrom(s, i + 1, Append(cur, s[i]))

Split(s) == SplitFrom(s, 1, <<>>)

\* segments.join('/')
RECURSIVE JoinSep(_)
JoinSep(segs) ==
    IF Len(segs) = 0 THEN <<>>
    ELSE IF Len(segs) = 1 THEN segs[1]
    ELSE segs[1] \o <<SEP>> \o JoinSep(Tail(segs))

\* _.compact: the falsy elements (here: empty strings) removed.
Compact(segs) == SelectSeq(segs, LAMBDA x : x # <<>>)

DotDot == <<DOT, DOT>>

(***************************************************************************)
(* path.posix.normalize / join / parse                                     *)
(***************************************************************************)
\* normalizeString: '' and '.' segments are dropped; '..' removes the last
\* kept segment unless there is none or it is '..' itself, in which case it
\* is kept only when allowAboveRoot.
RECURSIVE NormalizeSegs(_, _, _)
NormalizeSegs(segs, res, allowAboveRoot) ==
    IF Len(segs) = 0 THEN res
    ELSE LET seg == Head(segs)
             next ==
                 IF seg = <<>> \/ seg = <<DOT>> THEN res
                 ELSE IF seg = DotDot
                 THEN IF Len(res) > 0 /\ res[Len(res)] # DotDot
                      THEN SubSeq(res, 1, Len(res) - 1)
                      ELSE IF allowAboveRoot THEN Append(res, seg) ELSE res
                 ELSE Append(res, seg)
         IN  NormalizeSegs(Tail(segs), next, allowAboveRoot)

IsAbsolute(p) == StartsWith(p, SEP)

Normalize(p) ==
    IF Len(p) = 0 THEN <<DOT>>
    ELSE LET isAbsolute == IsAbsolute(p)
             trailingSeparator == p[Len(p)] = SEP
             body == JoinSep(NormalizeSegs(Split(p), <<>>, ~isAbsolute))
         IN  IF Len(body) = 0
             THEN IF isAbsolute THEN <<SEP>>
                  ELSE IF trailingSeparator THEN <<DOT, SEP>> ELSE <<DOT>>
             ELSE (IF isAbsolute THEN <<SEP>> ELSE <<>>) \o body
                  \o (IF trailingSeparator THEN <<SEP>> ELSE <<>>)

\* path.join(...args): the non-empty arguments joined by '/', normalized;
\* '.' when there is none.
PathJoin(args) ==
    LET used == Compact(args)
    IN  IF Len(used) = 0 THEN <<DOT>> ELSE Normalize(JoinSep(used))

\* The backwards scan of path.parse. Indices are those of JavaScript
\* (0-based); st holds startDot, startPart, end, matchedSlash, preDotState.
RECURSIVE ParseScan(_, _, _, _)
ParseScan(p, i, start, st) ==
    IF i < start THEN st
    ELSE LET c == p[i + 1]
         IN  IF c = SEP
             THEN IF ~st.matchedSlash
                  THEN [st EXCEPT !.startPart = i + 1]
                  ELSE ParseScan(p, i - 1, start, st)
             ELSE LET st1 == IF st.end = -1
                             THEN [st EXCEPT !.matchedSlash = FALSE, !.end = i + 1]
                             ELSE st
                      st2 == IF c = DOT
                             THEN IF st1.startDot = -1
                                  THEN [st1 EXCEPT !.startDot = i]
                                  ELSE [st1 EXCEPT !.preDotState = 1]
                             ELSE IF st1.startDot # -1
                                  THEN [st1 EXCEPT !.preDotState = -1]
                                  ELSE st1
                  IN  ParseScan(p, i - 1, start, st2)

PathParse(p) ==
    LET empty == [root |-> <<>>, dir |-> <<>>, base |-> <<>>, ext |-> <<>>,
                  name |-> <<>>]
    IN  IF Len(p) = 0 THEN empty
        ELSE
        LET isAbsolute == IsAbsolute(p)
            start == IF isAbsolute THEN 1 ELSE 0
            st == ParseScan(p, Len(p) - 1, start,
                            [startDot |-> -1, startPart |-> 0, end |-> -1,
                             matchedSlash |-> TRUE, preDotState |-> 0])
            from == IF st.startPart = 0 /\ isAbsolute THEN 1 ELSE st.startPart
            noExt == \/ st.startDot = -1
                     \/ st.preDotState = 0
                     \/ /\ st.preDotState = 1
                        /\ st.startDot = st.end - 1
                        /\ st.startDot = st.startPart + 1
            dir == IF st.startPart > 0 THEN Slice(p, 0, st.startPart - 1)
                   ELSE IF isAbsolute THEN <<SEP>> ELSE <<>>
        IN  IF st.end = -1
            THEN [empty EXCEPT !.root = IF isAbsolute THEN <<SEP>> ELSE <<>>,
                               !.dir = dir]
            ELSE [root |-> IF isAbsolute THEN <<SEP>> ELSE <<>>,
                  dir  |-> dir,
                  base |-> Slice(p, from, st.end),
                  ext  |-> IF noExt THEN <<>> ELSE Slice(p, st.startDot, st.end),
                  name |-> IF noExt THEN Slice(p, from, st.end)
                           ELSE Slice(p, from, st.startDot)]

(***************************************************************************)
(* The filesystem: a function from the nodes that exist (a node is the     *)
(* sequence of its path components; <<>> is the root) to [kind, size].     *)
(* A symbolic link carries what its target is: a file, a directory, or     *)
(* nothing (a dangling link).                                              *)
(***************************************************************************)
Kinds == {"file", "dir", "dirNoSearch", "linkFile", "linkDir", "linkDangling"}

Sizes == {0, 3}

RootEntry == [kind |-> "dir", size |-> 0]

Failure(code) == [ok |-> FALSE, code |-> code]

Stats(isDir, size) == [ok |-> TRUE, isDirectory |-> isDir, size |-> size]

\* The components the kernel walks for an absolute, normalized path.
Components(p) == Compact(Split(p))

HasTrailingSep(p) == Len(p) > 1 /\ p[Len(p)] = SEP

\* The error of walking through ancestor node `node` ("" when it can be
\* traversed).
TraverseError(f, node) ==
    IF node \notin DOMAIN f THEN "ENOENT"
    ELSE LET k == f[node].kind
         IN  IF k \in {"dir", "linkDir"} THEN ""
             ELSE IF k = "dirNoSearch" THEN "EACCES"
             ELSE IF k = "linkDangling" THEN "ENOENT"
             ELSE "ENOTDIR"

\* The status of path p; `follow` is TRUE for stat (the target's status)
\* and FALSE for lstat (the link's own status). A trailing separator makes
\* the kernel follow a final link and demand a directory.
StatusOf(f, p, follow) ==
    LET comps == Components(p)
        n == Len(comps)
        blocked == {i \in 0..(n - 1) : TraverseError(f, SubSeq(comps, 1, i)) # ""}
        trailing == HasTrailingSep(p)
    IN  IF blocked # {}
        THEN LET i == CHOOSE j \in blocked : \A h \in blocked : j <= h
             IN  Failure(TraverseError(f, SubSeq(comps, 1, i)))
        ELSE IF comps \notin DOMAIN f THEN Failure("ENOENT")
        ELSE LET e == f[comps]
             IN  CASE e.kind \in {"dir", "dirNoSearch"} -> Stats(TRUE, e.size)
                   [] e.kind = "file" ->
                        IF trailing THEN Failure("ENOTDIR")
                        ELSE Stats(FALSE, e.size)
                   [] e.kind = "linkDir" ->
                        IF follow \/ trailing THEN Stats(TRUE, e.size)
                        ELSE Stats(FALSE, e.size)
                   [] e.kind = "linkFile" ->
                        IF trailing THEN Failure("ENOTDIR")
                        ELSE Stats(FALSE, e.size)
                   [] e.kind = "linkDangling" ->
                        IF follow \/ trailing THEN Failure("ENOENT")
                        ELSE Stats(FALSE, e.size)

StatSync(f, p) == StatusOf(f, p, TRUE)

LstatSync(f, p) == StatusOf(f, p, FALSE)

(***************************************************************************)
(* exists                                                                  *)
(***************************************************************************)
\* Variant: only regular files count as existing.
ExistsFilesOnly(f, fullpath) ==
    LET st == StatSync(f, fullpath)
    IN  IF st.ok THEN ~st.isDirectory ELSE st.code # "ENOENT"

Exists(f, fullpath) ==
    LET st == StatSync(f, fullpath)
    IN  IF st.ok THEN TRUE ELSE st.code # "ENOENT"

(***************************************************************************)
(* getFileMetadataSync / getFileMetadataAsync                              *)
(***************************************************************************)
\* Variant: the hidden flag read from the parsed extension.
IsHiddenFromExt(pathObj) == StartsWith(pathObj.ext, DOT)

IsHidden(pathObj) == StartsWith(pathObj.base, DOT)

\* Variant: the parsed extension kept with its leading '.'.
ExtensionWithDot(pathObj) == pathObj.ext

Extension(pathObj) == ReplaceFirst(pathObj.ext, DOT)

\* The record both forms build once the status is known.
FileMetadata(fullpath, pathObj, stats) ==
    [basename    |-> pathObj.base,
     dirname     |-> pathObj.dir,
     fullpath    |-> fullpath,
     extension   |-> Extension(pathObj),
     name        |-> pathObj.name,
     isDirectory |-> stats.isDirectory,
     isHidden    |-> IsHidden(pathObj),
     size        |-> stats.size]

Returned(v) == [state |-> "returned", value |-> v]

Thrown(code) == [state |-> "thrown", error |-> code]

Resolved(v) == [state |-> "resolved", value |-> v]

Rejected(code) == [state |-> "rejected", error |-> code]

GetFileMetadataSync(f, dirname, basename) ==
    LET fullpath == PathJoin(<<dirname, basename>>)
        pathObj == PathParse(fullpath)
        stats == LstatSync(f, fullpath)
    IN  IF stats.ok THEN Returned(FileMetadata(fullpath, pathObj, stats))
        ELSE Thrown(stats.code)

\* The .then callback of getFileMetadataAsync, run when lstatAsync settles
\* with `stats`; a failed lstat rejects the promise with its error.
GetFileMetadataAsyncThen(dirname, basename, stats) ==
    LET fullpath == PathJoin(<<dirname, basename>>)
        pathObj == PathParse(fullpath)
    IN  IF stats.ok THEN Resolved(FileMetadata(fullpath, pathObj, stats))
        ELSE Rejected(stats.code)

(***************************************************************************)
(* Inputs                                                                  *)
(***************************************************************************)
MaxNameLen == 3

NameChars == {"a", DOT, SEP}

StringsUpTo(chars, n) == UNION {[1..k -> chars] : k \in 0..n}

\* The basename arguments: every string over NameChars up to MaxNameLen,
\* the default '' included.
Basenames == StringsUpTo(NameChars, MaxNameLen)

\* The dirname arguments: absolute directories, plain, hidden, with an
\* extension.
Dirnames == {<<SEP>>, <<SEP, "a">>, <<SEP, DOT, "a">>, <<SEP, "a", DOT, "a">>}

None == [state |-> "none"]

\* The filesystems that hold the first j nodes on the way to `comps`, the
\* last of them of any kind and the ones above it directories.
ChainFs(comps) ==
    {[node \in {<<>>} |-> RootEntry]} \cup
    {[node \in {SubSeq(comps, 1, i) : i \in 0..j} |->
         IF Len(node) = j THEN [kind |-> k, size |-> sz] ELSE RootEntry] :
       j \in 1..Len(comps), k \in Kinds, sz \in Sizes}

(***************************************************************************)
(* Specification Spec: exists and the two metadata builders called on one  *)
(* (dirname, basename), on a filesystem that does not change.              *)
(***************************************************************************)
Fullpath == PathJoin(<<call.dirname, call.basename>>)

Init ==
    /\ call \in [dirname : Dirnames, basename : Basenames]
    /\ fs \in ChainFs(Components(PathJoin(<<call.dirname, call.basename>>)))
    /\ pc = "idle"
    /\ out = [exists |-> None, sync |-> None, async |-> None]
    /\ batch = <<>>
    /\ sub = <<>>
    /\ lookups = <<>>
    /\ removed = {}

\* exists(fullpath) on the joined path.
ExistsCall ==
    /\ out.exists = None
    /\ out' = [out EXCEPT !.exists = Returned(Exists(fs, Fullpath))]
    /\ UNCHANGED <<fs, call, pc, batch, sub, lookups, removed>>

GetFileMetadataSyncCall ==
    /\ out.sync = None
    /\ out' = [out EXCEPT
                 !.sync = GetFileMetadataSync(fs, call.dirname, call.basename)]
    /\ UNCHANGED <<fs, call, pc, batch, sub, lookups, removed>>

\* getFileMetadataAsync up to its return: lstatAsync is issued.
GetFileMetadataAsyncCall ==
    /\ pc = "idle"
    /\ pc' = "lstat"
    /\ UNCHANGED <<fs, call, out, batch, sub, lookups, removed>>

\* lstatAsync settles and the .then callback runs.
LstatAsyncSettle ==
    /\ pc = "lstat"
    /\ pc' = "done"
    /\ out' = [out EXCEPT
                 !.async = GetFileMetadataAsyncThen(call.dirname, call.basename,
                                                    LstatSync(fs, Fullpath))]
    /\ UNCHANGED <<fs, call, batch, sub, lookups, removed>>

Next ==
    \/ ExistsCall
    \/ GetFileMetadataSyncCall
    \/ GetFileMetadataAsyncCall
    \/ LstatAsyncSettle

Spec == Init /\ [][Next]_vars
(***************************************************************************)
(* Properties of Spec                                                      *)
(***************************************************************************)
\* The records the two builders produced, if they did.
MetadataRecords ==
    (IF out.sync.state = "returned" THEN {out.sync.value} ELSE {}) \cup
    (IF out.async.state = "resolved" THEN {out.async.value} ELSE {})

HasDot(s) == \E i \in 1..Len(s) : s[i] = DOT

LastDot(s) == CHOOSE i \in 1..Len(s) : s[i] = DOT /\ \A j \in (i + 1)..Len(s) : s[j] # DOT

\* The substring of s after its last '.', '' when it has none.
AfterLastDot(s) == IF HasDot(s) THEN SubSeq(s, LastDot(s) + 1, Len(s)) ELSE <<>>

\* A name that is one path component: not empty, no separator, not '.'
\* nor '..'.
PlainName(s) ==
    /\ Len(s) >= 1
    /\ \A i \in 1..Len(s) : s[i] # SEP
    /\ s # <<DOT>>
    /\ s # DotDot

\* The final component of a path, '' for the root.
FinalComponent(p) ==
    LET comps == Components(p)
    IN  IF Len(comps) = 0 THEN <<>> ELSE comps[Len(comps)]

\* Whether p resolves to something, links followed.
PathExists(f, p) ==
    LET comps == Components(p)
        n == Len(comps)
    IN  /\ \A i \in 0..n : SubSeq(comps, 1, i) \in DOMAIN f
        /\ \A i \in 0..(n - 1) :
               f[SubSeq(comps, 1, i)].kind \in {"dir", "dirNoSearch", "linkDir"}
        /\ f[comps].kind # "linkDangling"
        /\ HasTrailingSep(p) => f[comps].kind \in {"dir", "dirNoSearch", "linkDir"}

\* C1: exists(p) is false exactly when p does not exist, and true when the
\* status query is refused (permission denied).
C1_ExistsFalseExactlyWhenAbsent ==
    out.exists.state = "returned" =>
        IF ~StatSync(fs, Fullpath).ok /\ StatSync(fs, Fullpath).code = "EACCES"
        THEN out.exists.value = TRUE
        ELSE (out.exists.value = FALSE) <=> ~PathExists(fs, Fullpath)

C9_HiddenIffArgumentStartsWithDot ==
    \A r \in MetadataRecords : r.isHidden = StartsWith(call.basename, DOT)

\* C9 amended: isHidden is whether the final component of join(dirname,
\* basename) starts with '.', which is whether the basename argument does
\* when that argument is a single path component.
C9_HiddenIffFinalComponentStartsWithDot ==
    \A r \in MetadataRecords :
        /\ r.isHidden = StartsWith(FinalComponent(Fullpath), DOT)
        /\ PlainName(call.basename) => r.isHidden = StartsWith(call.basename, DOT)

C9_Witness ==
    /\ out.sync.state = "returned"
    /\ out.async.state = "resolved"
    /\ call.dirname = <<SEP, DOT, "a">>
    /\ call.basename = <<>>
    /\ out.sync.value.isHidden
    /\ out.async.value.isHidden

IsDanglingLink(f, p) ==
    Components(p) \in DOMAIN f /\ f[Components(p)].kind = "linkDangling"

MaxPathLen == 5

PathChars == {"a", "b", DOT, SEP}

\* The fullpath arguments: the absolute path strings up to MaxPathLen.
Fullpaths == {p \in StringsUpTo(PathChars, MaxPathLen) : IsAbsolute(p)}

\* Variant: the empty components are kept.
SubpathsDirsNoCompact(fullpath) ==
    LET parts == Split(fullpath)
    IN  [parts EXCEPT ![1] = IF parts[1] = <<>> THEN <<SEP>> ELSE parts[1]]

\* fullpath.split(path.sep) with its first element replaced by '/' when it
\* is empty, then compacted.
SubpathsDirs(fullpath) ==
    LET parts == Split(fullpath)
    IN  Compact([parts EXCEPT ![1] = IF parts[1] = <<>> THEN <<SEP>> ELSE parts[1]])

\* Variant: a failed lookup is skipped and the mapping goes on.
SubpathsMappedSkipFailures(s, res) ==
    IF res.state = "returned"
    THEN [pc |-> IF Len(s.records) + 1 = Len(s.dirs) THEN "returned" ELSE "map",
          records |-> Append(s.records, res.value),
          out |-> IF Len(s.records) + 1 = Len(s.dirs)
                  THEN Returned(Append(s.records, res.value)) ELSE None]
    ELSE [pc |-> IF Len(s.records) + 1 = Len(s.dirs) THEN "returned" ELSE "map",
          records |-> Append(s.records, None),
          out |-> IF Len(s.records) + 1 = Len(s.dirs)
                  THEN Returned(Append(s.records, None)) ELSE None]

\* What one iteration of _.map leaves: the record appended, and the array
\* returned after the last one; a throw of getFileMetadataSync leaves the
\* map and subpaths at once.
SubpathsMapped(s, res) ==
    IF res.state = "returned"
    THEN [pc |-> IF Len(s.records) + 1 = Len(s.dirs) THEN "returned" ELSE "map",
          records |-> Append(s.records, res.value),
          out |-> IF Len(s.records) + 1 = Len(s.dirs)
                  THEN Returned(Append(s.records, res.value)) ELSE None]
    ELSE [pc |-> "thrown", records |-> s.records, out |-> res]

InitSub ==
    /\ call \in [isString : {TRUE}, fullpath : Fullpaths]
                  \cup {[isString |-> FALSE, fullpath |-> <<>>]}
    /\ fs \in ChainFs(Components(Normalize(call.fullpath)))
    /\ pc = "idle"
    /\ out = None
    /\ batch = <<>>
    /\ sub = [dirs |-> <<>>, records |-> <<>>]
    /\ lookups = <<>>
    /\ removed = {}

\* subpaths up to the first iteration of its map.
SubpathsCall ==
    /\ pc = "idle"
    /\ IF ~call.isString
       THEN /\ pc' = "returned"
            /\ out' = Returned("null")
            /\ UNCHANGED sub
       ELSE LET dirs == SubpathsDirs(call.fullpath)
            IN  /\ sub' = [dirs |-> dirs, records |-> <<>>]
                /\ IF Len(dirs) = 0
                   THEN pc' = "returned" /\ out' = Returned(<<>>)
                   ELSE pc' = "map" /\ UNCHANGED out
    /\ UNCHANGED <<fs, call, batch, lookups, removed>>

\* One iteration: getFileMetadataSync(path.join(...dirs.slice(0, index + 1))).
SubpathsStep ==
    /\ pc = "map"
    /\ LET index == Len(sub.records)
           subdir == Slice(sub.dirs, 0, index + 1)
           dirname == PathJoin(subdir)
           res == GetFileMetadataSync(fs, dirname, <<>>)
           after == SubpathsMapped(sub, res)
       IN  /\ lookups' = Append(lookups, PathJoin(<<dirname, <<>>>>))
           /\ sub' = [sub EXCEPT !.records = after.records]
           /\ pc' = after.pc
           /\ out' = after.out
    /\ UNCHANGED <<fs, call, batch, removed>>

NextSub ==
    \/ SubpathsCall
    \/ SubpathsStep

SpecSub == InitSub /\ [][NextSub]_vars

(***************************************************************************)
(* Properties of SpecSub                                                   *)
(***************************************************************************)
\* The non-empty components of the argument.
ArgComponents == Compact(Split(call.fullpath))

\* '/c1/.../ci' ('/' for i = 0).
PrefixPath(comps, i) == <<SEP>> \o JoinSep(SubSeq(comps, 1, i))

SubpathsFinished == call.isString /\ pc \in {"returned", "thrown"}

\* What subpaths owes a path of k components all of whose ancestors can be
\* stated: k + 1 records, the (i+1)-th with fullpath '/c1/.../ci'.
RecordsFromRootToPath ==
    LET comps == ArgComponents
        k == Len(comps)
    IN  (\A i \in 0..k : LstatSync(fs, Normalize(PrefixPath(comps, i))).ok)
        => /\ pc = "returned"
           /\ Len(out.value) = k + 1
           /\ \A i \in 0..k : out.value[i + 1].fullpath = PrefixPath(comps, i)

\* C6 as stated: for every absolute path string whose ancestors all exist.
C6_SubpathsOfEveryAbsolutePath == SubpathsFinished => RecordsFromRootToPath

\* C6 amended: for every absolute path string none of whose components is
\* '.' or '..' and whose ancestors all exist, subpaths returns k + 1 records
\* from '/' to the full path, empty components adding none.
C6_SubpathsOfDotFreePath ==
    (/\ SubpathsFinished
     /\ \A i \in 1..Len(ArgComponents) : ArgComponents[i] \notin {<<DOT>>, DotDot})
        => RecordsFromRootToPath

C6_Witness ==
    /\ pc = "returned"
    /\ call.isString
    /\ call.fullpath = <<SEP, "a", SEP, SEP, "b">>
    /\ Len(out.value) = 3
    /\ out.value[3].fullpath = <<SEP, "a", SEP, "b">>

\* C7: the lookups are those of the ancestors from the root down, one per
\* iteration; none follows a failed one; a failure is what subpaths throws
\* and no record sequence is returned then.
C7_SubpathsSequentialFailFast ==
    call.isString =>
        /\ \A i \in 1..Len(lookups) :
               lookups[i] = Normalize(PrefixPath(ArgComponents, i - 1))
        /\ \A i \in 1..(Len(lookups) - 1) : LstatSync(fs, lookups[i]).ok
        /\ Len(lookups) = Len(sub.records) + (IF pc = "thrown" THEN 1 ELSE 0)
        /\ Len(lookups) <= Len(ArgComponents) + 1
        /\ pc = "thrown" =>
               /\ ~LstatSync(fs, lookups[Len(lookups)]).ok
               /\ out = Thrown(LstatSync(fs, lookups[Len(lookups)]).code)
        /\ pc = "returned" =>
               /\ out.state = "returned"
               /\ Len(out.value) = Len(lookups)
               /\ \A i \in 1..Len(lookups) :
                      /\ LstatSync(fs, lookups[i]).ok
                      /\ out.value[i].fullpath = lookups[i]
        /\ pc = "map" => out = None

C7_Witness ==
    /\ pc = "thrown"
    /\ call.isString
    /\ Len(ArgComponents) = 2
    /\ Len(lookups) = 2
    /\ out = Thrown("ENOENT")
(***************************************************************************)
(* getAllFilesMetadataAsync and getDirectoryContents                       *)
(***************************************************************************)
MaxBatch == 3

\* The names a directory may hold and a caller may ask for.
EntryNames == {<<"a">>, <<DOT, "a">>}

EntryKinds == {"file", "dir"}

\* The directory the calls are about.
BatchDir == <<SEP, "a">>

BatchDirNode == Components(BatchDir)

EntrySize(kind) == IF kind = "file" THEN 3 ELSE 0

\* The filesystems: the directory missing, a regular file in its place, or
\* the directory (searchable or not) holding any of the names.
BatchFs ==
    {[node \in {<<>>} |-> RootEntry]} \cup
    {[node \in {<<>>, BatchDirNode} |->
         IF node = <<>> THEN RootEntry ELSE [kind |-> "file", size |-> 3]]} \cup
    {[node \in {<<>>, BatchDirNode} \cup {Append(BatchDirNode, n) : n \in DOMAIN ents} |->
         IF node = <<>> THEN RootEntry
         ELSE IF node = BatchDirNode THEN [kind |-> dk, size |-> 0]
         ELSE [kind |-> ents[node[Len(node)]],
               size |-> EntrySize(ents[node[Len(node)]])]] :
       dk \in {"dir", "dirNoSearch"},
       ents \in UNION {[names -> EntryKinds] : names \in SUBSET EntryNames}}

\* What the module exports (lines 37, 58, 79, 100, 128, 136, 153).
Exports ==
    {"exists", "getFileMetadataSync", "getFileMetadataAsync",
     "getAllFilesMetadataAsync", "getDirectoryContents", "getDirectory",
     "subpaths"}

NoBatch ==
    [items |-> <<>>, pending |-> {}, values |-> <<>>, done |-> <<>>,
     promise |-> None, settles |-> 0]

\* Variant: the values in the order the lookups completed.
MapValuesInCompletionOrder(b) ==
    [j \in 1..Len(b.items) |-> b.values[b.done[j].index]]

\* The array Bluebird.map fulfils with: the value of item i at index i.
MapValues(b) == [i \in 1..Len(b.items) |-> b.values[i]]

\* Bluebird.map(items, mapper) up to its return, the mapper calling
\* exports[export](dirname, item): the mapper runs for every item in the
\* same tick; calling a property that is not a function throws a TypeError,
\* which rejects the promise; an empty array fulfils with [].
BluebirdMap(items, export) ==
    IF Len(items) = 0
    THEN [NoBatch EXCEPT !.promise = Resolved(<<>>), !.settles = 1]
    ELSE IF export \notin Exports
    THEN [NoBatch EXCEPT !.items = items,
                         !.values = [i \in 1..Len(items) |-> None],
                         !.promise = Rejected("TypeError"), !.settles = 1]
    ELSE [NoBatch EXCEPT !.items = items,
                         !.values = [i \in 1..Len(items) |-> None],
                         !.pending = 1..Len(items)]

\* Variant: failed lookups are left out and the rest reported.
MapSettledBestEffort(b, i, res) ==
    LET b1 == [b EXCEPT !.pending = @ \ {i},
                        !.done = Append(@, [index |-> i, result |-> res]),
                        !.values[i] = IF res.state = "resolved" THEN res.value ELSE @]
    IN  IF b1.pending = {}
        THEN [b1 EXCEPT !.promise = Resolved(MapValues(b1)), !.settles = @ + 1]
        ELSE b1

\* The promise of item i settling with res: the first rejection rejects the
\* map's promise; the last fulfilment fulfils it; a promise already settled
\* stays as it is.
MapSettled(b, i, res) ==
    LET b1 == [b EXCEPT !.pending = @ \ {i},
                        !.done = Append(@, [index |-> i, result |-> res]),
                        !.values[i] = IF res.state = "resolved" THEN res.value ELSE @]
    IN  IF b.promise # None THEN b1
        ELSE IF res.state = "rejected"
        THEN [b1 EXCEPT !.promise = res, !.settles = @ + 1]
        ELSE IF \A j \in 1..Len(b1.items) : b1.values[j] # None
        THEN [b1 EXCEPT !.promise = Resolved(MapValues(b1)), !.settles = @ + 1]
        ELSE b1

\* fs.readdir: the names in the directory, or the error of opening it.
Readdir(f, dirname) ==
    LET st == StatSync(f, dirname)
        node == Components(dirname)
    IN  IF ~st.ok THEN Failure(st.code)
        ELSE IF ~st.isDirectory THEN Failure("ENOTDIR")
        ELSE [ok |-> TRUE,
              names |-> {n[Len(n)] : n \in {m \in DOMAIN f :
                             Len(m) = Len(node) + 1 /\ SubSeq(m, 1, Len(node)) = node}}]

\* The orders in which a directory read may return a set of names.
Orderings(names) ==
    {q \in [1..Cardinality(names) -> names] : \A n \in names : \E i \in DOMAIN q : q[i] = n}

InitBatch ==
    /\ call \in
         [op : {"getAllFilesMetadataAsync"}, dirname : {BatchDir},
          basenames : UNION {[1..k -> EntryNames] : k \in 0..MaxBatch}]
         \cup [op : {"getDirectoryContents"}, dirname : {BatchDir},
               basenames : {<<>>}]
    /\ fs \in BatchFs
    /\ pc = "idle"
    /\ out = None
    /\ batch = NoBatch
    /\ sub = <<>>
    /\ lookups = <<>>
    /\ removed = {}

\* getAllFilesMetadataAsync up to its return: one lstatAsync per basename is
\* in flight.
GetAllFilesMetadataAsyncCall ==
    /\ pc = "idle"
    /\ call.op = "getAllFilesMetadataAsync"
    /\ LET b == BluebirdMap(call.basenames, "getFileMetadataAsync")
       IN  /\ batch' = b
           /\ out' = b.promise
           /\ lookups' = [i \in 1..Cardinality(b.pending) |->
                             PathJoin(<<call.dirname, b.items[i]>>)]
    /\ pc' = "map"
    /\ UNCHANGED <<fs, call, sub, removed>>

\* getDirectoryContents up to its return: readdirAsync is in flight.
GetDirectoryContentsCall ==
    /\ pc = "idle"
    /\ call.op = "getDirectoryContents"
    /\ pc' = "readdir"
    /\ UNCHANGED <<fs, call, out, batch, sub, lookups, removed>>

\* readdirAsync settles: with the listing, in an order of the system's
\* choosing, or with its error, which rejects getDirectoryContents.
ReaddirSettle ==
    /\ pc = "readdir"
    /\ LET r == Readdir(fs, call.dirname)
       IN  IF r.ok
           THEN \E contents \in Orderings(r.names) :
                    /\ batch' = [NoBatch EXCEPT !.items = contents]
                    /\ pc' = "listed"
                    /\ UNCHANGED out
           ELSE /\ out' = Rejected(r.code)
                /\ pc' = "failed"
                /\ UNCHANGED batch
    /\ UNCHANGED <<fs, call, sub, lookups, removed>>

\* The .then callback of getDirectoryContents: Bluebird.map over the
\* listing with a mapper that calls exports.getFileMetadata.
ReaddirThen ==
    /\ pc = "listed"
    /\ LET b == BluebirdMap(batch.items, "getFileMetadata")
       IN  /\ batch' = b
           /\ out' = b.promise
           /\ lookups' = [i \in 1..Cardinality(b.pending) |->
                             PathJoin(<<call.dirname, b.items[i]>>)]
    /\ pc' = "map"
    /\ UNCHANGED <<fs, call, sub, removed>>

\* The lstatAsync of item i settles and the mapper's promise with it.
LookupSettle ==
    /\ pc = "map"
    /\ \E i \in batch.pending :
           LET stats == LstatSync(fs, lookups[i])
               res == GetFileMetadataAsyncThen(call.dirname, batch.items[i], stats)
               b == MapSettled(batch, i, res)
           IN  /\ batch' = b
               /\ out' = b.promise
    /\ UNCHANGED <<fs, call, pc, sub, lookups, removed>>

\* Another process deletes an entry of the directory.
ExternalUnlink ==
    /\ \E n \in EntryNames :
           LET node == Append(BatchDirNode, n)
           IN  /\ node \in DOMAIN fs
               /\ fs' = [m \in DOMAIN fs \ {node} |-> fs[m]]
               /\ removed' = removed \cup {[name |-> n, at |-> pc]}
    /\ UNCHANGED <<call, pc, out, batch, sub, lookups>>

NextBatch ==
    \/ GetAllFilesMetadataAsyncCall
    \/ GetDirectoryContentsCall
    \/ ReaddirSettle
    \/ ReaddirThen
    \/ LookupSettle
    \/ ExternalUnlink

SpecBatch == InitBatch /\ [][NextBatch]_vars
(***************************************************************************)
(* Properties of SpecBatch                                                 *)
(***************************************************************************)
BatchCall == call.op = "getAllFilesMetadataAsync" /\ pc = "map"

ListingCall == call.op = "getDirectoryContents" /\ pc = "map"

\* The completions that failed, by their place in the completion order.
FailedCompletions ==
    {j \in 1..Len(batch.done) : batch.done[j].result.state = "rejected"}

\* C2: with every entry statable and nothing changed, getDirectoryContents
\* resolves with one record per name of the listing, in the listing's order.
C2_DirectoryContentsOnePerEntry ==
    (/\ ListingCall
     /\ batch.pending = {}
     /\ removed = {}
     /\ \A i \in 1..Len(batch.items) :
            LstatSync(fs, PathJoin(<<call.dirname, batch.items[i]>>)).ok)
        => /\ out.state = "resolved"
           /\ Len(out.value) = Len(batch.items)
           /\ \A i \in 1..Len(batch.items) : out.value[i].basename = batch.items[i]

\* C3: the k lookups are all issued before any completes, and when all
\* succeed the promise fulfils with k records, the i-th the one the lookup
\* of the i-th basename produced, whatever the order of completion.
C3_BatchResultsInInputOrder ==
    BatchCall =>
        /\ Len(lookups) = Len(call.basenames)
        /\ batch.pending \cup {batch.done[j].index : j \in 1..Len(batch.done)}
               = 1..Len(call.basenames)
        /\ (batch.pending = {} /\ FailedCompletions = {}) =>
               /\ out.state = "resolved"
               /\ Len(out.value) = Len(call.basenames)
               /\ \A i \in 1..Len(call.basenames) :
                      /\ out.value[i].basename = call.basenames[i]
                      /\ out.value[i].fullpath =
                             BatchDir \o <<SEP>> \o call.basenames[i]
               /\ \A j \in 1..Len(batch.done) :
                      out.value[batch.done[j].index] = batch.done[j].result.value

C3_Witness ==
    /\ BatchCall
    /\ out.state = "resolved"
    /\ Len(call.basenames) = 3
    /\ call.basenames[1] # call.basenames[3]
    /\ batch.done[1].index = 3
    /\ batch.done[2].index = 1
    /\ batch.done[3].index = 2

\* C4: once a lookup has failed the promise is rejected with the error of
\* the first lookup that failed, whatever completed before or after it; the
\* promise settles at most once and never fulfils with part of the records.
C4_BatchFailsFast ==
    BatchCall =>
        /\ batch.settles <= 1
        /\ FailedCompletions # {} =>
               LET first == CHOOSE j \in FailedCompletions :
                                \A h \in FailedCompletions : j <= h
               IN  /\ out = Rejected(batch.done[first].result.error)
                   /\ batch.settles = 1
        /\ out.state = "resolved" =>
               /\ FailedCompletions = {}
               /\ batch.pending = {}
               /\ \A i \in 1..Len(out.value) : out.value[i] # None

C4_Witness ==
    /\ BatchCall
    /\ Len(batch.done) = 3
    /\ batch.done[1].result.state = "resolved"
    /\ batch.done[2].result.state = "rejected"
    /\ batch.done[3].result.state = "resolved"
    /\ out = Rejected("ENOENT")
    /\ batch.settles = 1

\* C5: an entry deleted after the listing was read and before it is stated
\* makes getDirectoryContents fail with the status query's not-found error.
C5_DeletedEntrySurfacesNotFound ==
    (/\ ListingCall
     /\ batch.pending = {}
     /\ fs[BatchDirNode].kind = "dir"
     /\ \E r \in removed :
            r.at = "listed" /\ \E i \in 1..Len(batch.items) : batch.items[i] = r.name)
        => out = Rejected("ENOENT")
====
